---- MODULE Spec2Model ----
(***************************************************************************)
(* Model of the browser-side capture controller window.FaceRecognition     *)
(* (src/static/js/face-recognition.js).                                    *)
(*                                                                         *)
(* The controller is a global object, also exported as window.FR, so its   *)
(* methods are the operations of the model: each may be called in any      *)
(* state, by a click handler bound in bindEvents or by any other script.   *)
(* Promise completions (getUserMedia, axios) are separate steps, because   *)
(* other calls can run between issuing a call and its completion.          *)
(* The page is taken to hold every element the methods look up, and to     *)
(* load with the start buttons enabled and the stop buttons disabled.      *)
(***************************************************************************)
EXTENDS Integers, Sequences, FiniteSets, Bags, TLC

\* ---------------------------------------------------------------- bounds
MaxStreams == 2      \* media streams that can be live at once
MaxTimers == 2       \* setInterval timers that can be active at once
MaxPendingGUM == 2   \* getUserMedia promises pending at once
MaxFaces == 1        \* faces a detection sample can report
MaxDetect == 2       \* detection samples awaiting their result at once
MaxCaptureDetect == 1 \* the same, in the specification of the capture page
MaxCaptureGUM == 1   \* getUserMedia promises pending at once on the capture page
MaxCaptureTimers == 1 \* timers active at once on the capture page
MaxRequests == 2     \* recognize/register/delete requests in flight at once
MaxRoster == 1       \* roster reads (GET /api/v1/face/data) in flight at once
MaxChartRequests == 2 \* chart-data requests in flight at once
Wait == 2            \* the wait, in clock units, given to debounce and throttle
MaxElapsed == 5      \* clock units the wrappers are followed for
MaxBurst == 2        \* calls counted in one burst of debounced calls

VARIABLES
    hasMediaDevices,   \* navigator.mediaDevices.getUserMedia exists
    modelStatus,       \* loadModels(): "loading", "loaded" or "failed"
    faceDetectionModel, \* FaceRecognition.faceDetectionModel is not null
    stream,            \* FaceRecognition.stream: 0 is null, else a stream id
    liveStreams,       \* acquired streams whose tracks have not been stopped
    pendingGUM,        \* getUserMedia promises not yet settled
    isDetecting,       \* FaceRecognition.isDetecting
    detectionInterval, \* FaceRecognition.detectionInterval: 0 is null, else a timer id
    activeTimers,      \* setInterval timers created and not cleared
    currentFaces,      \* FaceRecognition.currentFaces.length
    overlay,           \* the canvas #face-canvas: "clear" or "drawn"
    detectPending,     \* detection samples awaiting their result, in issue order
    requests,          \* bag of the recognize/register/delete requests in flight
    rosterPending,     \* GET /api/v1/face/data requests in flight
    staleReads,        \* history: how many of them were issued before the latest
                       \* successful registration
    tableFresh,        \* history: the roster table shows every registration that
                       \* has succeeded
    tableHasRows,      \* the roster table holds rows, each with a delete button
    disabled,          \* the .disabled flag of each button
    label,             \* what the recognize and register buttons show
    imageField,        \* value of #face-image-data
    preview,           \* src of #photo-preview
    userId,            \* value of #user-id
    lastOp,            \* the operation or completion that ran last
    stoppedTwice,      \* history: the last two steps were both stopCamera calls
    lastToast,         \* the toast the last step showed last ("none" if it showed none)
    toastCount,        \* how many toasts the last step showed
    lastFailed,        \* whether the last step ended its operation in failure
    threw,             \* whether the last step ended by throwing
    lastSound,         \* the sound the last step played ("none" if none)
    resultPanel,       \* whether #recognition-result holds a success panel
    sessionFaces,      \* history: face count of the latest result applied from a
                       \* sample taken since the camera was last released, -1 if none
    \* window.AttendanceSystem (src/unnamed/part_000)
    currentUser,       \* AttendanceSystem.currentUser: "null", else the user's role
    display,           \* style.display of the menu items of each marker class
    userLoads,         \* GET /auth/current-user requests in flight
    location,          \* window.location: "app" or "login"
    menuOp,            \* the AttendanceSystem operation or completion that ran last
    \* window.Charts (src/static/js/charts.js)
    timeRange,         \* value of #time-range
    department,        \* value of #department-filter
    chartPending,      \* GET /api/v1/statistics/charts requests in flight, in
                       \* issue order
    chartsShown,       \* the parameters of the response the charts and the
                       \* statistics cards show, "none" before the first one
    shownIsLatest,     \* history: that response answered the request issued last
    latestOutcome,     \* history: "none", "pending", "ok" or "failed", of the
                       \* request issued last
    refreshDisabled,   \* the .disabled flag of #refresh-charts
    chartOp,           \* the Charts operation or completion that ran last
    \* wrappers made by Utils.debounce and Utils.throttle (src/static/js/utils.js)
    now,               \* the clock: Date.now(), and the time base of setTimeout
    dTimeout,          \* debounce: the due time of the pending timer, 0 if none
    dArgs,             \* debounce: the arguments the pending timer holds
    dLastCall,         \* history: when the debounced wrapper was last called, 0 if never
    dLastArgs,         \* history: the arguments of that call
    dUnserved,         \* history: the wrapper was called since func last ran
    dBurst,            \* history: calls in the burst under way or served last,
                       \* counted up to MaxBurst
    tLastTime,         \* throttle: lastTime
    tRanAt,            \* history: when the throttled func last ran, 0 if never
    utilOp,            \* the wrapper call or timer callback that ran last
    funcRan,           \* whether the last step ran the wrapped func
    ranArgs            \* the arguments it ran func with, "none" if it did not

vars == <<hasMediaDevices, modelStatus, faceDetectionModel, stream, liveStreams,
          pendingGUM, isDetecting, detectionInterval, activeTimers, currentFaces, overlay,
          detectPending, requests, rosterPending, staleReads, tableFresh, tableHasRows,
          disabled,
          label, imageField, preview, userId, lastOp, stoppedTwice, lastToast,
          toastCount, lastFailed, threw, lastSound, resultPanel, sessionFaces,
          currentUser, display, userLoads, location, menuOp,
          timeRange, department, chartPending, chartsShown, shownIsLatest,
          latestOutcome, refreshDisabled, chartOp,
          now, dTimeout, dArgs, dLastCall, dLastArgs, dUnserved, dBurst, tLastTime,
          tRanAt,
          utilOp, funcRan, ranArgs>>

\* variable groups, for UNCHANGED
envVars == <<hasMediaDevices, modelStatus, faceDetectionModel>>
camVars == <<stream, liveStreams>>
detVars == <<isDetecting, detectionInterval, activeTimers>>
formVars == <<imageField, preview, userId, resultPanel>>
rosterVars == <<rosterPending, staleReads, tableFresh, tableHasRows>>
menuVars == <<currentUser, display, userLoads, location, menuOp>>
\* the state of the other scripts of the page, which no method of
\* FaceRecognition reads or writes
chartVars == <<timeRange, department, chartPending, chartsShown, shownIsLatest,
               latestOutcome, refreshDisabled, chartOp>>
debounceVars == <<dTimeout, dArgs, dLastCall, dLastArgs, dUnserved, dBurst>>
throttleVars == <<tLastTime, tRanAt>>
utilVars == <<now, debounceVars, throttleVars, utilOp, funcRan, ranArgs>>
otherVars == <<menuVars, chartVars, utilVars>>
\* the state of FaceRecognition and its page elements
frVars == <<envVars, camVars, pendingGUM, detVars, currentFaces, overlay, detectPending,
            requests, rosterVars, disabled, label, formVars, lastOp, stoppedTwice,
            lastToast, toastCount, lastFailed, threw, lastSound, sessionFaces>>

Buttons == {"start-camera", "stop-camera", "start-detection", "stop-detection",
            "recognize-attendance", "register-face"}

\* "idle": the text of the HTML template; "busy": spinner span plus the
\* in-progress text (innerHTML); "busyText": the in-progress text alone.
Labels == {"idle", "busy", "busyText"}

\* ---------------------------------------------------------------- helpers
\* element.textContent: the text of the element without its markup; the
\* spinner span holds no text, so a busy button reads as the in-progress text.
TextContent(l) == IF l = "busy" THEN "busyText" ELSE l

\* the id a newly created object gets: one no live object holds
FreeIds(used, max) == (1..max) \ used
NewId(used, max) == CHOOSE i \in FreeIds(used, max) : \A j \in FreeIds(used, max) : i <= j

RemoveAt(s, i) == [j \in 1..(Len(s) - 1) |-> IF j < i THEN s[j] ELSE s[j + 1]]

\* the lifecycle state of spec section 4.4 read off the controller's fields
SessionState ==
    IF stream = 0
    THEN IF isDetecting THEN "Invalid" ELSE "Idle"
    ELSE IF isDetecting THEN "Detecting" ELSE "CameraActive"

\* what every step records about itself: the operation, the one toast it
\* showed (or "none"), the sound it played, whether it ended in failure
StepFull(op, toast, sound, failed) ==
    /\ lastOp' = op
    /\ stoppedTwice' = (op = "stopCamera" /\ lastOp = "stopCamera")
    /\ lastToast' = toast
    /\ toastCount' = IF toast = "none" THEN 0 ELSE 1
    /\ lastFailed' = failed
    /\ threw' = FALSE
    /\ lastSound' = sound

\* a step that does not fail; Step plays no sound
StepSound(op, toast, sound) == StepFull(op, toast, sound, FALSE)
Step(op, toast) == StepSound(op, toast, "none")

\* a step that ends its operation in failure, showing toast ("none": logged only)
Fail(op, toast) == StepFull(op, toast, "none", TRUE)
FailSound(op, toast, sound) == StepFull(op, toast, sound, TRUE)

\* ---------------------------------------------------------------- Init
\* window.FaceRecognition as the object literal and init() leave it
InitFR ==
    /\ hasMediaDevices \in BOOLEAN
    /\ modelStatus = "loading"
    /\ faceDetectionModel = FALSE
    /\ stream = 0
    /\ liveStreams = {}
    /\ pendingGUM = 0
    /\ isDetecting = FALSE
    /\ detectionInterval = 0
    /\ activeTimers = {}
    /\ currentFaces = 0
    /\ overlay = "clear"
    /\ detectPending = <<>>
    /\ requests = EmptyBag
    /\ rosterPending = 0
    /\ staleReads = 0
    /\ tableFresh = TRUE
    /\ tableHasRows = FALSE
    /\ disabled = [b \in Buttons |-> b \in {"stop-camera", "stop-detection"}]
    /\ label = [b \in {"recognize-attendance", "register-face"} |-> "idle"]
    /\ imageField = ""
    /\ preview = ""
    /\ userId = ""
    /\ lastOp = "init"
    /\ stoppedTwice = FALSE
    /\ lastToast = "none"
    /\ toastCount = 0
    /\ lastFailed = FALSE
    /\ threw = FALSE
    /\ lastSound = "none"
    /\ resultPanel = FALSE
    /\ sessionFaces = -1

MenuClasses == {"admin-only", "admin-hr-only", "admin-manager-only"}

\* window.AttendanceSystem as the object literal leaves it, on a page whose
\* menu items carry the inline display d
InitMenu(d) ==
    /\ currentUser = "null"
    /\ display = d
    /\ userLoads = 0
    /\ location = "app"
    /\ menuOp = "init"

\* window.Charts after init(), on a page whose selectors show their first
\* option
InitCharts ==
    /\ timeRange = "month"
    /\ department = "all"
    /\ chartPending = <<>>
    /\ chartsShown = "none"
    /\ shownIsLatest = FALSE
    /\ latestOutcome = "none"
    /\ refreshDisabled = FALSE
    /\ chartOp = "init"

\* a debounced and a throttled wrapper as Utils.debounce(func, Wait) and
\* Utils.throttle(func, Wait) return them.  Date.now() counts from 1970, so
\* the page's clock starts more than Wait after 0.
InitUtils ==
    /\ now = Wait + 1
    /\ dTimeout = 0
    /\ dArgs = "none"
    /\ dLastCall = 0
    /\ dLastArgs = "none"
    /\ dUnserved = FALSE
    /\ dBurst = 0
    /\ tLastTime = 0
    /\ tRanAt = 0
    /\ utilOp = "init"
    /\ funcRan = FALSE
    /\ ranArgs = "none"

Init ==
    /\ InitFR
    /\ InitMenu([c \in MenuClasses |-> ""])
    /\ InitCharts
    /\ InitUtils

\* ---------------------------------------------------------------- models
\* loadModels(): Promise.all(...).then(): the four nets are loaded
LoadModelsResolve ==
    /\ modelStatus = "loading"
    /\ modelStatus' = "loaded"
    /\ faceDetectionModel' = TRUE
    /\ Step("loadModelsResolve", "none")
    /\ UNCHANGED <<otherVars, hasMediaDevices, overlay, camVars, pendingGUM, detVars,
                   currentFaces, detectPending, requests, rosterVars, disabled, label,
                   formVars, sessionFaces>>

\* the rejection handler setting the model fields as the success handler does
LoadModelsReject_SetsModel ==
    /\ modelStatus = "loading"
    /\ modelStatus' = "failed"
    /\ faceDetectionModel' = TRUE
    /\ Fail("loadModelsReject", "none")
    /\ UNCHANGED <<otherVars, hasMediaDevices, overlay, camVars, pendingGUM, detVars,
                   currentFaces, detectPending, requests, rosterVars, disabled, label,
                   formVars, sessionFaces>>

\* loadModels(): .catch(): logged, the status line switches to the backend
LoadModelsReject ==
    /\ modelStatus = "loading"
    /\ modelStatus' = "failed"
    /\ UNCHANGED faceDetectionModel
    /\ Fail("loadModelsReject", "none")
    /\ UNCHANGED <<otherVars, hasMediaDevices, overlay, camVars, pendingGUM, detVars,
                   currentFaces, detectPending, requests, rosterVars, disabled, label,
                   formVars, sessionFaces>>

\* ---------------------------------------------------------------- camera
\* startCamera(): asks for the camera; the promise settles in a later step.
StartCamera ==
    /\ IF hasMediaDevices
       THEN /\ pendingGUM < MaxPendingGUM
            /\ pendingGUM' = pendingGUM + 1
            /\ Step("startCamera", "none")
       ELSE /\ UNCHANGED pendingGUM
            /\ Fail("startCamera", "browserUnsupported")
    /\ UNCHANGED <<otherVars, envVars, overlay, camVars, detVars, currentFaces, detectPending,
                   requests, rosterVars, disabled, label, formVars, sessionFaces>>

\* getUserMedia(...).then(stream => ...)
GetUserMediaResolve ==
    /\ pendingGUM > 0
    /\ FreeIds(liveStreams, MaxStreams) # {}
    /\ LET s == NewId(liveStreams, MaxStreams) IN
        /\ stream' = s
        /\ liveStreams' = liveStreams \cup {s}
    /\ pendingGUM' = pendingGUM - 1
    /\ disabled' = [disabled EXCEPT !["start-camera"] = TRUE, !["stop-camera"] = FALSE]
    /\ Step("getUserMediaResolve", "none")
    /\ UNCHANGED <<otherVars, envVars, overlay, detVars, currentFaces, detectPending, requests,
                   rosterVars, label, formVars, sessionFaces>>

\* the rejection handler without its showToast call: the error is only logged
GetUserMediaReject_Silent ==
    /\ pendingGUM > 0
    /\ pendingGUM' = pendingGUM - 1
    /\ Fail("getUserMediaReject", "none")
    /\ UNCHANGED <<otherVars, envVars, overlay, camVars, detVars, currentFaces, detectPending,
                   requests, rosterVars, disabled, label, formVars, sessionFaces>>

\* getUserMedia(...).catch(error => ...)
GetUserMediaReject ==
    /\ pendingGUM > 0
    /\ pendingGUM' = pendingGUM - 1
    /\ Fail("getUserMediaReject", "cameraDenied")
    /\ UNCHANGED <<otherVars, envVars, overlay, camVars, detVars, currentFaces, detectPending,
                   requests, rosterVars, disabled, label, formVars, sessionFaces>>

\* the body of stopDetection(), as a relation on the fields it writes
StopDetectionBody(dis) ==
    /\ isDetecting' = FALSE
    /\ IF detectionInterval # 0
       THEN /\ activeTimers' = activeTimers \ {detectionInterval}
            /\ detectionInterval' = 0
       ELSE UNCHANGED <<activeTimers, detectionInterval>>
    /\ overlay' = "clear"
    /\ disabled' = [dis EXCEPT !["start-detection"] = FALSE, !["stop-detection"] = TRUE]

\* stopCamera() without its "if (this.stream)" guard: on a null stream
\* this.stream.getTracks() throws a TypeError before anything is written
StopCamera_NoGuard ==
    /\ IF stream # 0
       THEN /\ liveStreams' = liveStreams \ {stream}
            /\ stream' = 0
            /\ StopDetectionBody([disabled EXCEPT !["start-camera"] = FALSE,
                                                  !["stop-camera"] = TRUE])
            /\ sessionFaces' = -1
            /\ detectPending' = [i \in 1..Len(detectPending) |->
                                    [detectPending[i] EXCEPT !.current = FALSE]]
       ELSE UNCHANGED <<camVars, detVars, overlay, disabled, sessionFaces, detectPending>>
    /\ lastOp' = "stopCamera"
    /\ stoppedTwice' = (lastOp = "stopCamera")
    /\ lastToast' = "none"
    /\ toastCount' = 0
    /\ lastFailed' = (stream = 0)
    /\ lastSound' = "none"
    /\ threw' = (stream = 0)
    /\ UNCHANGED <<otherVars, envVars, pendingGUM, currentFaces, requests, rosterVars,
                   label, formVars>>

\* stopCamera()
StopCamera ==
    /\ IF stream # 0
       THEN /\ liveStreams' = liveStreams \ {stream}
            /\ stream' = 0
            /\ StopDetectionBody([disabled EXCEPT !["start-camera"] = FALSE,
                                                  !["stop-camera"] = TRUE])
            /\ sessionFaces' = -1
            /\ detectPending' = [i \in 1..Len(detectPending) |->
                                    [detectPending[i] EXCEPT !.current = FALSE]]
       ELSE UNCHANGED <<camVars, detVars, overlay, disabled, sessionFaces, detectPending>>
    /\ Step("stopCamera", "none")
    /\ UNCHANGED <<otherVars, envVars, pendingGUM, currentFaces, requests, rosterVars,
                   label, formVars>>

\* ---------------------------------------------------------------- detection
\* startDetection() without its "if (!this.stream)" check
StartDetection_NoStreamCheck ==
    /\ FreeIds(activeTimers, MaxTimers) # {}
    /\ isDetecting' = TRUE
    /\ overlay' = "clear"
    /\ disabled' = [disabled EXCEPT !["start-detection"] = TRUE,
                                    !["stop-detection"] = FALSE]
    /\ LET t == NewId(activeTimers, MaxTimers) IN
        /\ detectionInterval' = t
        /\ activeTimers' = activeTimers \cup {t}
    /\ Step("startDetection", "none")
    /\ UNCHANGED <<otherVars, envVars, camVars, pendingGUM, currentFaces, detectPending,
                   requests, rosterVars, label, formVars, sessionFaces>>

\* startDetection()
StartDetection ==
    /\ IF stream = 0
       THEN /\ Fail("startDetection", "startCameraFirst")
            /\ UNCHANGED <<detVars, overlay, disabled>>
       ELSE /\ FreeIds(activeTimers, MaxTimers) # {}
            /\ isDetecting' = TRUE
            /\ overlay' = "clear"
            /\ disabled' = [disabled EXCEPT !["start-detection"] = TRUE,
                                            !["stop-detection"] = FALSE]
            /\ LET t == NewId(activeTimers, MaxTimers) IN
                /\ detectionInterval' = t
                /\ activeTimers' = activeTimers \cup {t}
            /\ Step("startDetection", "none")
    /\ UNCHANGED <<otherVars, envVars, camVars, pendingGUM, currentFaces, detectPending,
                   requests, rosterVars, label, formVars, sessionFaces>>

\* stopDetection() that also empties currentFaces
StopDetection_ClearsFaces ==
    /\ StopDetectionBody(disabled)
    /\ currentFaces' = 0
    /\ Step("stopDetection", "none")
    /\ UNCHANGED <<otherVars, envVars, camVars, pendingGUM, detectPending,
                   requests, rosterVars, label, formVars, sessionFaces>>

\* stopDetection()
StopDetection ==
    /\ StopDetectionBody(disabled)
    /\ Step("stopDetection", "none")
    /\ UNCHANGED <<otherVars, envVars, camVars, pendingGUM, currentFaces, detectPending,
                   requests, rosterVars, label, formVars, sessionFaces>>

\* context.drawImage(video, ...) on canvas content o: the current frame is
\* painted if the video has a stream, nothing otherwise
DrawFrame(o) == IF stream # 0 THEN "drawn" ELSE o

\* what a result handler leaves on the canvas: both clear it first; the
\* backend handler paints the frame, and both stroke a box for each face
DrawResult(detector, n) ==
    IF n > 0 THEN "drawn"
    ELSE IF detector = "backend" THEN DrawFrame("clear") ELSE "clear"

\* detectFaces() without its test of faceDetectionModel
Detector_AlwaysBackend(model) == "backend"

\* detectFaces(): the local detector if the model is loaded, else the backend
Detector(model) == IF model THEN "local" ELSE "backend"

\* one firing of a setInterval timer created by startDetection: detectFaces()
\* submits a sample to the detector (local model or POST /api/v1/face/detect).
\* current and superseded are history: the sample was taken since the camera
\* was last released; the result of a younger sample has been applied.
Tick(t) ==
    /\ t \in activeTimers
    /\ Len(detectPending) < MaxDetect
    /\ detectPending' = Append(detectPending,
                               [current |-> stream # 0, superseded |-> FALSE,
                                detector |-> Detector(faceDetectionModel)])
    /\ overlay' = IF faceDetectionModel THEN overlay ELSE DrawFrame(overlay)
    /\ Step("tick", "none")
    /\ UNCHANGED <<otherVars, envVars, camVars, pendingGUM, detVars, currentFaces,
                   requests, rosterVars, disabled, label, formVars, sessionFaces>>

\* the samples left pending once the result of sample i has been applied
Supersede(samples, i) ==
    [j \in 1..(Len(samples) - 1) |->
        IF j < i THEN [samples[j] EXCEPT !.superseded = TRUE] ELSE samples[j + 1]]

\* a failed sample that also cancels the detection loop
DetectDone_StopOnFailure(i, n) ==
    /\ i \in 1..Len(detectPending)
    /\ IF n >= 0
       THEN /\ detectPending' = Supersede(detectPending, i)
            /\ currentFaces' = n
            /\ overlay' = DrawResult(detectPending[i].detector, n)
            /\ sessionFaces' = IF detectPending[i].current THEN n ELSE sessionFaces
            /\ Step("detectDone", "none")
            /\ UNCHANGED <<detVars, disabled>>
       ELSE /\ detectPending' = RemoveAt(detectPending, i)
            /\ StopDetectionBody(disabled)
            /\ Fail("detectDone", "none")
            /\ UNCHANGED <<currentFaces, sessionFaces>>
    /\ UNCHANGED <<otherVars, envVars, camVars, pendingGUM, requests, rosterVars, label,
                   formVars>>

\* the result of sample i arrives; n = -1: the detector threw or the request
\* was rejected (logged only), otherwise n faces were found.
DetectDone(i, n) ==
    /\ i \in 1..Len(detectPending)
    /\ IF n >= 0
       THEN /\ detectPending' = Supersede(detectPending, i)
            /\ currentFaces' = n
            /\ overlay' = DrawResult(detectPending[i].detector, n)
            /\ sessionFaces' = IF detectPending[i].current THEN n ELSE sessionFaces
            /\ Step("detectDone", "none")
       ELSE /\ detectPending' = RemoveAt(detectPending, i)
            /\ Fail("detectDone", "none")
            /\ UNCHANGED <<currentFaces, overlay, sessionFaces>>
    /\ UNCHANGED <<otherVars, envVars, camVars, pendingGUM, detVars, requests, rosterVars,
                   disabled, label, formVars>>

\* ---------------------------------------------------------------- form
\* capturePhoto()
CapturePhoto ==
    /\ IF stream = 0
       THEN /\ Fail("capturePhoto", "startCameraFirst")
            /\ UNCHANGED <<imageField, preview, overlay>>
       ELSE /\ overlay' = DrawFrame("clear")
            /\ preview' = "img"
            /\ imageField' = "img"
            /\ Step("capturePhoto", "photoTaken")
    /\ UNCHANGED <<otherVars, envVars, camVars, pendingGUM, detVars, currentFaces,
                   detectPending, requests, rosterVars, disabled, label, userId,
                   resultPanel, sessionFaces>>

\* the user picks an entry of the #user-id select ("" is the empty entry)
SelectUser(u) ==
    /\ u # userId
    /\ userId' = u
    /\ Step("selectUser", "none")
    /\ UNCHANGED <<otherVars, envVars, overlay, camVars, pendingGUM, detVars, currentFaces,
                   detectPending, requests, rosterVars, disabled, label,
                   imageField, preview, resultPanel, sessionFaces>>

\* ---------------------------------------------------------------- requests
\* a request as issued: its kind and the button text read before the button
\* was put in its busy state (originalText)
Request(kind, text) == [kind |-> kind, originalText |-> text]

\* the busy state a request puts its button in
Busy(b) ==
    /\ disabled' = [disabled EXCEPT ![b] = TRUE]
    /\ label' = [label EXCEPT ![b] = "busy"]

\* the .finally() of a request: the button is enabled, its text put back
Restore(b, text) ==
    /\ disabled' = [disabled EXCEPT ![b] = FALSE]
    /\ label' = [label EXCEPT ![b] = text]

\* registerFace() without its "if (!userId)" check
RegisterFace_NoUserCheck ==
    /\ IF imageField = ""
       THEN /\ Fail("registerFace", "needPhoto")
            /\ UNCHANGED <<requests, disabled, label>>
       ELSE /\ BagCardinality(requests) < MaxRequests
            /\ requests' = requests (+) SetToBag({Request("register", TextContent(label["register-face"]))})
            /\ Busy("register-face")
            /\ Step("registerFace", "none")
    /\ UNCHANGED <<otherVars, envVars, overlay, camVars, pendingGUM, detVars, currentFaces,
                   detectPending, rosterVars, formVars, sessionFaces>>

\* registerFace()
RegisterFace ==
    /\ IF imageField = ""
       THEN /\ Fail("registerFace", "needPhoto")
            /\ UNCHANGED <<requests, disabled, label>>
       ELSE IF userId = ""
       THEN /\ Fail("registerFace", "needUser")
            /\ UNCHANGED <<requests, disabled, label>>
       ELSE /\ BagCardinality(requests) < MaxRequests
            /\ requests' = requests (+) SetToBag({Request("register", TextContent(label["register-face"]))})
            /\ Busy("register-face")
            /\ Step("registerFace", "none")
    /\ UNCHANGED <<otherVars, envVars, overlay, camVars, pendingGUM, detVars, currentFaces,
                   detectPending, rosterVars, formVars, sessionFaces>>

\* the register response with a success handler that does not call
\* loadFaceData()
RegisterDone_NoReload(r, ok) ==
    /\ BagIn(r, requests)
    /\ r.kind = "register"
    /\ requests' = requests (-) SetToBag({r})
    /\ IF ok
       THEN /\ rosterPending < MaxRoster
            /\ imageField' = ""
            /\ preview' = ""
            /\ staleReads' = rosterPending
            /\ tableFresh' = FALSE
            /\ UNCHANGED <<rosterPending, tableHasRows>>
            /\ Step("registerDone", "registerSuccess")
       ELSE /\ UNCHANGED <<imageField, preview, rosterVars>>
            /\ Fail("registerDone", "registerFailed")
    /\ Restore("register-face", r.originalText)
    /\ UNCHANGED <<otherVars, envVars, overlay, camVars, pendingGUM, detVars, currentFaces,
                   detectPending, userId, resultPanel, sessionFaces>>

\* the response of a register request r: .then / .catch, then .finally.
\* On success loadFaceData() issues a roster read; the reads already in
\* flight were issued before this registration was known to have succeeded.
RegisterDone(r, ok) ==
    /\ BagIn(r, requests)
    /\ r.kind = "register"
    /\ requests' = requests (-) SetToBag({r})
    /\ IF ok
       THEN /\ rosterPending < MaxRoster
            /\ imageField' = ""
            /\ preview' = ""
            /\ rosterPending' = rosterPending + 1
            /\ staleReads' = rosterPending
            /\ tableFresh' = FALSE
            /\ UNCHANGED tableHasRows
            /\ Step("registerDone", "registerSuccess")
       ELSE /\ UNCHANGED <<imageField, preview, rosterVars>>
            /\ Fail("registerDone", "registerFailed")
    /\ Restore("register-face", r.originalText)
    /\ UNCHANGED <<otherVars, envVars, overlay, camVars, pendingGUM, detVars, currentFaces,
                   detectPending, userId, resultPanel, sessionFaces>>

\* recognizeAttendance()
RecognizeAttendance ==
    /\ IF stream = 0
       THEN /\ Fail("recognizeAttendance", "startCameraFirst")
            /\ UNCHANGED <<requests, overlay, disabled, label>>
       ELSE IF currentFaces = 0
       THEN /\ Fail("recognizeAttendance", "noFace")
            /\ UNCHANGED <<requests, overlay, disabled, label>>
       ELSE /\ BagCardinality(requests) < MaxRequests
            /\ overlay' = DrawFrame("clear")
            /\ requests' = requests (+) SetToBag({Request("recognize", TextContent(label["recognize-attendance"]))})
            /\ Busy("recognize-attendance")
            /\ Step("recognizeAttendance", "none")
    /\ UNCHANGED <<otherVars, envVars, camVars, pendingGUM, detVars, currentFaces,
                   detectPending, rosterVars, formVars, sessionFaces>>

\* the recognize response with the button restored at the end of .then()
\* instead of in .finally(): a rejected request leaves the button busy
RecognizeDone_NoFinally(r, outcome) ==
    /\ BagIn(r, requests)
    /\ r.kind = "recognize"
    /\ requests' = requests (-) SetToBag({r})
    /\ CASE outcome = "success" ->
                /\ resultPanel' = TRUE
                /\ StepSound("recognizeDone", "recognizeSuccess", "success")
                /\ Restore("recognize-attendance", r.originalText)
         [] outcome = "noMatch" ->
                /\ UNCHANGED resultPanel
                /\ FailSound("recognizeDone", "recognizeNoMatch", "error")
                /\ Restore("recognize-attendance", r.originalText)
         [] OTHER ->
                /\ UNCHANGED <<resultPanel, disabled, label>>
                /\ FailSound("recognizeDone", "recognizeFailed", "error")
    /\ UNCHANGED <<otherVars, envVars, overlay, camVars, pendingGUM, detVars, currentFaces,
                   detectPending, rosterVars, imageField, preview, userId,
                   sessionFaces>>

\* the response of a recognize request r; outcome "success": result.success,
\* "noMatch": a response with success false, "error": the request was rejected
RecognizeDone(r, outcome) ==
    /\ BagIn(r, requests)
    /\ r.kind = "recognize"
    /\ requests' = requests (-) SetToBag({r})
    /\ CASE outcome = "success" ->
                /\ resultPanel' = TRUE
                /\ StepSound("recognizeDone", "recognizeSuccess", "success")
         [] outcome = "noMatch" ->
                /\ UNCHANGED resultPanel
                /\ FailSound("recognizeDone", "recognizeNoMatch", "error")
         [] OTHER ->
                /\ UNCHANGED resultPanel
                /\ FailSound("recognizeDone", "recognizeFailed", "error")
    /\ Restore("recognize-attendance", r.originalText)
    /\ UNCHANGED <<otherVars, envVars, overlay, camVars, pendingGUM, detVars, currentFaces,
                   detectPending, rosterVars, imageField, preview, userId,
                   sessionFaces>>

\* deleteFaceData(faceId); confirmed is the answer to the confirm() dialog
DeleteFaceData(confirmed) ==
    /\ IF confirmed
       THEN /\ BagCardinality(requests) < MaxRequests
            /\ requests' = requests (+) SetToBag({Request("delete", "none")})
       ELSE UNCHANGED requests
    /\ Step("deleteFaceData", "none")
    /\ UNCHANGED <<otherVars, envVars, overlay, camVars, pendingGUM, detVars, currentFaces,
                   detectPending, rosterVars, disabled, label, formVars,
                   sessionFaces>>

\* the delete response with a success handler that throws after its toast,
\* so that the .catch() chained behind it shows the failure toast as well
DeleteDone_SuccessThenFailure(r, ok) ==
    /\ BagIn(r, requests)
    /\ r.kind = "delete"
    /\ requests' = requests (-) SetToBag({r})
    /\ IF ok
       THEN /\ rosterPending < MaxRoster
            /\ UNCHANGED rosterVars
            /\ lastOp' = "deleteDone"
            /\ stoppedTwice' = FALSE
            /\ lastToast' = "deleteFailed"
            /\ toastCount' = 2
            /\ lastFailed' = TRUE
            /\ threw' = FALSE
            /\ lastSound' = "none"
       ELSE /\ UNCHANGED rosterVars
            /\ Fail("deleteDone", "deleteFailed")
    /\ UNCHANGED <<otherVars, envVars, overlay, camVars, pendingGUM, detVars, currentFaces,
                   detectPending, disabled, label, formVars, sessionFaces>>

\* the response of a delete request r; on success loadFaceData() issues a
\* roster read
DeleteDone(r, ok) ==
    /\ BagIn(r, requests)
    /\ r.kind = "delete"
    /\ requests' = requests (-) SetToBag({r})
    /\ IF ok
       THEN /\ rosterPending < MaxRoster
            /\ rosterPending' = rosterPending + 1
            /\ UNCHANGED <<staleReads, tableFresh, tableHasRows>>
            /\ Step("deleteDone", "deleteSuccess")
       ELSE /\ UNCHANGED rosterVars
            /\ Fail("deleteDone", "deleteFailed")
    /\ UNCHANGED <<otherVars, envVars, overlay, camVars, pendingGUM, detVars, currentFaces,
                   detectPending, disabled, label, formVars, sessionFaces>>

\* the response of a roster read issued by loadFaceData(); stale: the read
\* was issued before the latest successful registration.  A successful read
\* renders the table (with rows or the "no data" line), a failed one is
\* logged only.
LoadFaceDataDone(ok, stale) ==
    /\ IF stale THEN staleReads > 0 ELSE rosterPending > staleReads
    /\ rosterPending' = rosterPending - 1
    /\ staleReads' = IF stale THEN staleReads - 1 ELSE staleReads
    /\ IF ok
       THEN /\ tableFresh' = ~stale
            /\ tableHasRows' \in BOOLEAN
            /\ Step("loadFaceDataDone", "none")
       ELSE /\ UNCHANGED <<tableFresh, tableHasRows>>
            /\ Fail("loadFaceDataDone", "none")
    /\ UNCHANGED <<otherVars, envVars, overlay, camVars, pendingGUM, detVars, currentFaces,
                   detectPending, requests, disabled, label, formVars, sessionFaces>>

\* a click on the delete button of a table row: the listener bound by
\* renderFaceDataTable calls self.deleteFaceData(faceId), where self is not
\* declared in renderFaceDataTable and so is the global window.self, which
\* has no deleteFaceData: the call throws a TypeError before confirm() is
\* reached.
ClickDeleteFace ==
    /\ tableHasRows
    /\ lastOp' = "clickDelete"
    /\ stoppedTwice' = FALSE
    /\ lastToast' = "none"
    /\ toastCount' = 0
    /\ lastFailed' = TRUE
    /\ lastSound' = "none"
    /\ threw' = TRUE
    /\ UNCHANGED <<otherVars, envVars, overlay, camVars, pendingGUM, detVars, currentFaces,
                   detectPending, requests, rosterVars, disabled, label, formVars,
                   sessionFaces>>

\* ---------------------------------------------------------------- Next
Users == {"", "u1"}
RecognizeOutcomes == {"success", "noMatch", "error"}

\* a detection timer fires on the capture page; the result of a sample
\* arrives; a getUserMedia promise settles
TimerFires == \E t \in 1..MaxTimers : Len(detectPending) < MaxCaptureDetect /\ Tick(t)
DetectResult == \E i \in 1..MaxCaptureDetect, n \in -1..MaxFaces : DetectDone(i, n)
GetUserMediaSettles == GetUserMediaResolve \/ GetUserMediaReject

\* startCamera() and startDetection() as the capture page explores them
CaptureStartCamera == pendingGUM < MaxCaptureGUM /\ StartCamera
CaptureStartDetection ==
    /\ stream # 0 => Cardinality(activeTimers) < MaxCaptureTimers
    /\ StartDetection

\* The capture page: camera, detection loop and recognition.  The form
\* fields and the roster are not written by any of these operations, and the
\* local models stay in loading, so every sample goes to the backend.  The
\* calls that pile up getUserMedia promises, timers and pending samples are
\* explored to the smaller capture-page bounds here and in full in SpecDetect.
Next ==
    \/ CaptureStartCamera
    \/ GetUserMediaResolve
    \/ GetUserMediaReject
    \/ StopCamera
    \/ CaptureStartDetection
    \/ StopDetection
    \/ TimerFires
    \/ DetectResult
    \/ RecognizeAttendance
    \/ \E r \in BagToSet(requests), o \in RecognizeOutcomes : RecognizeDone(r, o)

Spec == Init /\ [][Next]_vars

\* The capture page with progress: an active setInterval timer keeps firing,
\* and every detection result and every getUserMedia promise is taken to
\* settle.  The responses of recognize requests and the calls made by the
\* user are not guaranteed to happen.
SpecLive ==
    /\ Init /\ [][Next]_vars
    /\ WF_vars(TimerFires)
    /\ WF_vars(DetectResult)
    /\ WF_vars(GetUserMediaSettles)

\* The registration form and the roster: photo capture, user selection,
\* registration, roster deletion.  Of the controller's fields these
\* operations read stream only (capturePhoto), so the camera operations are
\* kept and the detection loop is left out.
NextForm ==
    \/ StartCamera
    \/ GetUserMediaResolve
    \/ GetUserMediaReject
    \/ StopCamera
    \/ CapturePhoto
    \/ \E u \in Users : SelectUser(u)
    \/ RegisterFace
    \/ \E r \in BagToSet(requests), ok \in BOOLEAN : RegisterDone(r, ok)
    \/ \E c \in BOOLEAN : DeleteFaceData(c)
    \/ \E r \in BagToSet(requests), ok \in BOOLEAN : DeleteDone(r, ok)
    \/ \E ok \in BOOLEAN, stale \in BOOLEAN : LoadFaceDataDone(ok, stale)
    \/ ClickDeleteFace

SpecForm == Init /\ [][NextForm]_vars

\* The detection loop alone: model loading, camera, timers, samples and their
\* results, with up to MaxDetect samples awaiting their result.
NextDetect ==
    \/ LoadModelsResolve
    \/ LoadModelsReject
    \/ StartCamera
    \/ GetUserMediaResolve
    \/ GetUserMediaReject
    \/ StopCamera
    \/ StartDetection
    \/ StopDetection
    \/ \E t \in 1..MaxTimers : Tick(t)
    \/ \E i \in 1..MaxDetect, n \in -1..MaxFaces : DetectDone(i, n)

SpecDetect == Init /\ [][NextDetect]_vars

\* ---------------------------------------------------------------- menu
\* window.AttendanceSystem (src/unnamed/part_000): the current user and the
\* menu items shown for the user's role.  A user record is modelled by its
\* role; "guest" stands for any role other than the four the system names,
\* a missing role included.  Each menu item carries one marker class.
MaxUserLoads == 2    \* GET /auth/current-user requests in flight at once

Roles == {"admin", "hr", "manager", "employee", "guest"}

\* item.style.display as updateMenuByRole sets it for an item of class cls
ItemDisplay_HrSeesAdmin(role, cls) ==
    CASE cls = "admin-only" -> IF role = "admin" \/ role = "hr" THEN "" ELSE "none"
      [] cls = "admin-hr-only" -> IF role = "admin" \/ role = "hr" THEN "" ELSE "none"
      [] cls = "admin-manager-only" ->
             IF role = "admin" \/ role = "manager" THEN "" ELSE "none"

ItemDisplay(role, cls) ==
    CASE cls = "admin-only" -> IF role = "admin" THEN "" ELSE "none"
      [] cls = "admin-hr-only" -> IF role = "admin" \/ role = "hr" THEN "" ELSE "none"
      [] cls = "admin-manager-only" ->
             IF role = "admin" \/ role = "manager" THEN "" ELSE "none"

\* updateMenuByRole() with currentUser = user, on items displayed as d
MenuByRole(user, d) ==
    IF user = "null" THEN d ELSE [c \in MenuClasses |-> ItemDisplay(user, c)]

\* loadCurrentUser(): issues the request
LoadCurrentUser ==
    /\ location = "app"
    /\ userLoads < MaxUserLoads
    /\ userLoads' = userLoads + 1
    /\ menuOp' = "loadCurrentUser"
    /\ UNCHANGED <<frVars, chartVars, utilVars, currentUser, display, location>>

\* its then-handler: stores response.data and runs updateUserInterface(),
\* which returns at once without a user and else ends in updateMenuByRole()
LoadCurrentUserDone(data) ==
    /\ location = "app"
    /\ userLoads > 0
    /\ userLoads' = userLoads - 1
    /\ currentUser' = data
    /\ display' = MenuByRole(data, display)
    /\ menuOp' = "loadCurrentUserDone"
    /\ UNCHANGED <<frVars, chartVars, utilVars, location>>

\* its catch-handler: logs, and on status 401 leaves for the login page
LoadCurrentUserFailed(unauthorized) ==
    /\ location = "app"
    /\ userLoads > 0
    /\ userLoads' = userLoads - 1
    /\ location' = IF unauthorized THEN "login" ELSE location
    /\ menuOp' = "loadCurrentUserFailed"
    /\ UNCHANGED <<frVars, chartVars, utilVars, currentUser, display>>

\* updateMenuByRole() called on its own
UpdateMenuByRole ==
    /\ location = "app"
    /\ display' = MenuByRole(currentUser, display)
    /\ menuOp' = "updateMenuByRole"
    /\ UNCHANGED <<frVars, chartVars, utilVars, currentUser, userLoads, location>>

\* the page loads with each class of menu items shown or hidden
InitAnyMenu ==
    /\ InitFR
    /\ hasMediaDevices
    /\ \E d \in [MenuClasses -> {"", "none"}] : InitMenu(d)
    /\ InitCharts
    /\ InitUtils

NextMenu ==
    \/ LoadCurrentUser
    \/ \E data \in Roles \cup {"null"} : LoadCurrentUserDone(data)
    \/ \E unauthorized \in BOOLEAN : LoadCurrentUserFailed(unauthorized)
    \/ UpdateMenuByRole

SpecMenu == InitAnyMenu /\ [][NextMenu]_vars

\* ---------------------------------------------------------------- charts
\* window.Charts (src/static/js/charts.js): the statistics page.
TimeRanges == {"month", "week"}
Departments == {"all", "rd"}

\* updateCharts(): reads the two selectors, disables the refresh button and
\* issues the request; the request issued last is marked latest
UpdateCharts(op) ==
    /\ Len(chartPending) < MaxChartRequests
    /\ chartPending' =
           Append([i \in 1..Len(chartPending) |-> [chartPending[i] EXCEPT !.latest = FALSE]],
                  [time_range |-> timeRange', department |-> department', latest |-> TRUE])
    /\ refreshDisabled' = TRUE
    /\ latestOutcome' = "pending"
    /\ chartOp' = op
    /\ UNCHANGED <<chartsShown, shownIsLatest>>
    /\ UNCHANGED <<frVars, menuVars, utilVars>>

\* the user picks another time range: the change listener calls updateCharts
ChangeTimeRange(v) ==
    /\ v # timeRange
    /\ timeRange' = v
    /\ UNCHANGED department
    /\ UpdateCharts("changeTimeRange")

\* the user picks another department
ChangeDepartment(v) ==
    /\ v # department
    /\ department' = v
    /\ UNCHANGED timeRange
    /\ UpdateCharts("changeDepartment")

\* a click on #refresh-charts, which a disabled button does not deliver
ClickRefresh ==
    /\ ~refreshDisabled
    /\ UNCHANGED <<timeRange, department>>
    /\ UpdateCharts("clickRefresh")

\* the response of request i arrives: the then-handler redraws every chart
\* and the cards from it, the catch-handler shows a toast; finally the
\* refresh button is enabled again
ChartsDone(i, ok) ==
    /\ i \in 1..Len(chartPending)
    /\ chartPending' = RemoveAt(chartPending, i)
    /\ IF ok
       THEN /\ chartsShown' = <<chartPending[i].time_range, chartPending[i].department>>
            /\ shownIsLatest' = chartPending[i].latest
       ELSE UNCHANGED <<chartsShown, shownIsLatest>>
    /\ latestOutcome' = IF chartPending[i].latest
                        THEN (IF ok THEN "ok" ELSE "failed")
                        ELSE latestOutcome
    /\ refreshDisabled' = FALSE
    /\ chartOp' = IF ok THEN "chartsDone" ELSE "chartsFailed"
    /\ UNCHANGED <<timeRange, department>>
    /\ UNCHANGED <<frVars, menuVars, utilVars>>

NextCharts ==
    \/ \E v \in TimeRanges : ChangeTimeRange(v)
    \/ \E v \in Departments : ChangeDepartment(v)
    \/ ClickRefresh
    \/ \E i \in 1..MaxChartRequests, ok \in BOOLEAN : ChartsDone(i, ok)

\* the statistics page, in a browser with a camera API
InitChartsPage == Init /\ hasMediaDevices

SpecCharts == InitChartsPage /\ [][NextCharts]_vars

\* ---------------------------------------------------------------- utils
\* Utils.debounce and Utils.throttle (src/static/js/utils.js): one wrapper
\* of each, made with the same wait, called at any time with any arguments.
Args == {"a", "b"}

\* the clock value the run ends at
Horizon == Wait + 1 + MaxElapsed

\* no step but a wrapper call or a timer callback runs func
NoRun(op) ==
    /\ utilOp' = op
    /\ funcRan' = FALSE
    /\ ranArgs' = "none"

\* a clock unit passes
Advance ==
    /\ now < Horizon
    /\ now' = now + 1
    /\ NoRun("advance")
    /\ UNCHANGED <<frVars, menuVars, chartVars, debounceVars, throttleVars>>

\* the debounced wrapper is called: clearTimeout cancels the pending timer,
\* setTimeout makes one due after Wait.  The run follows calls whose timer
\* falls due before the horizon.
DebounceCall_Leading(args) ==
    /\ now + Wait <= Horizon
    /\ dTimeout' = now + Wait
    /\ dArgs' = args
    /\ dLastCall' = now
    /\ dLastArgs' = args
    /\ dUnserved' = TRUE
    /\ dBurst' = IF dUnserved THEN (IF dBurst < MaxBurst THEN dBurst + 1 ELSE dBurst)
                 ELSE 1
    /\ utilOp' = "debounceCall"
    /\ funcRan' = ~dUnserved
    /\ ranArgs' = IF dUnserved THEN "none" ELSE args
    /\ UNCHANGED <<frVars, menuVars, chartVars, now, throttleVars>>

DebounceCall(args) ==
    /\ now + Wait <= Horizon
    /\ dTimeout' = now + Wait
    /\ dArgs' = args
    /\ dLastCall' = now
    /\ dLastArgs' = args
    /\ dUnserved' = TRUE
    /\ dBurst' = IF dUnserved THEN (IF dBurst < MaxBurst THEN dBurst + 1 ELSE dBurst)
                 ELSE 1
    /\ NoRun("debounceCall")
    /\ UNCHANGED <<frVars, menuVars, chartVars, now, throttleVars>>

\* the callback of the pending timer runs, at its due time or later: it
\* applies func to the arguments the timer was made with
DebounceFire ==
    /\ dTimeout # 0
    /\ now >= dTimeout
    /\ dTimeout' = 0
    /\ dArgs' = "none"
    /\ dUnserved' = FALSE
    /\ utilOp' = "debounceFire"
    /\ funcRan' = TRUE
    /\ ranArgs' = dArgs
    /\ UNCHANGED <<frVars, menuVars, chartVars, now, dLastCall, dLastArgs, dBurst,
                   throttleVars>>

\* the throttled wrapper is called: it runs func, and stamps lastTime, if
\* Wait or more has passed since lastTime
ThrottleCall_NoStamp(args) ==
    /\ utilOp' = "throttleCall"
    /\ IF now - tLastTime >= Wait
       THEN /\ UNCHANGED tLastTime
            /\ tRanAt' = now
            /\ funcRan' = TRUE
            /\ ranArgs' = args
       ELSE /\ UNCHANGED <<tLastTime, tRanAt>>
            /\ funcRan' = FALSE
            /\ ranArgs' = "none"
    /\ UNCHANGED <<frVars, menuVars, chartVars, now, debounceVars>>

ThrottleCall(args) ==
    /\ utilOp' = "throttleCall"
    /\ IF now - tLastTime >= Wait
       THEN /\ tLastTime' = now
            /\ tRanAt' = now
            /\ funcRan' = TRUE
            /\ ranArgs' = args
       ELSE /\ UNCHANGED <<tLastTime, tRanAt>>
            /\ funcRan' = FALSE
            /\ ranArgs' = "none"
    /\ UNCHANGED <<frVars, menuVars, chartVars, now, debounceVars>>

DebounceCalls == \E args \in Args : DebounceCall(args)

NextUtils ==
    \/ Advance
    \/ DebounceCalls
    \/ DebounceFire
    \/ \E args \in Args : ThrottleCall(args)

\* a page using the wrappers, in a browser with a camera API
InitUtilsPage == Init /\ hasMediaDevices

\* time passes and a timer that is due fires
SpecUtils ==
    /\ InitUtilsPage
    /\ [][NextUtils]_vars
    /\ WF_vars(Advance)
    /\ WF_vars(DebounceFire)

\* ================================================================ claims
LifecycleFields == <<stream, isDetecting, detectionInterval>>

RecognizeInFlight == \E r \in BagToSet(requests) : r.kind = "recognize"

\* the button a kind of request puts in its busy state, and its completion step
ButtonOf(kind) == IF kind = "recognize" THEN "recognize-attendance" ELSE "register-face"
DoneOp(kind) == IF kind = "recognize" THEN "recognizeDone" ELSE "registerDone"

\* the step is the completion of request r (of a kind that has a button)
Completes(r) ==
    /\ r.kind \in {"recognize", "register"}
    /\ lastOp' = DoneOp(r.kind)
    /\ CopiesIn(r, requests') < CopiesIn(r, requests)

\* C1: every step either leaves stream, isDetecting and detectionInterval
\* unchanged or is one of the five transitions of the lifecycle, taken by the
\* operation that owns it: acquire Idle->CameraActive, start
\* CameraActive->Detecting, stop Detecting->CameraActive, release
\* CameraActive->Idle and Detecting->Idle.
C1_LifecycleFollowsFsm ==
    [][ \/ UNCHANGED LifecycleFields
        \/ /\ SessionState = "Idle" /\ SessionState' = "CameraActive"
           /\ lastOp' = "getUserMediaResolve"
        \/ /\ SessionState = "CameraActive" /\ SessionState' = "Detecting"
           /\ lastOp' = "startDetection"
        \/ /\ SessionState = "Detecting" /\ SessionState' = "CameraActive"
           /\ lastOp' = "stopDetection"
        \/ /\ SessionState \in {"CameraActive", "Detecting"} /\ SessionState' = "Idle"
           /\ lastOp' = "stopCamera"
      ]_vars

\* C2: at most one recognize, register or delete request awaits its response.
C2_OneRequestInFlight == BagCardinality(requests) <= 1

\* C3: a recognizeAttendance call made while a recognize request is in
\* flight issues no request and leaves the button as the first call set it.
C3_SecondRecognizeRejected ==
    [][ (lastOp' = "recognizeAttendance" /\ RecognizeInFlight)
            => UNCHANGED <<requests, disabled, label>> ]_vars

\* C4: stopCamera called with a live stream ends Idle with no detection
\* timer left active.
C4_ReleaseEndsIdle ==
    [][ (lastOp' = "stopCamera" /\ stream # 0)
            => /\ stream' = 0
               /\ isDetecting' = FALSE
               /\ detectionInterval' = 0
               /\ activeTimers' = {} ]_vars

\* C5: a detection timer tick fires only while the camera stream is held.
C5_TickOnlyWithStream == [][ lastOp' = "tick" => stream # 0 ]_vars

\* C6: a stopCamera call that directly follows a stopCamera call changes
\* neither the controller's fields nor the buttons nor the live streams and
\* timers, and does not throw.
C6_StopCameraIdempotent ==
    [][ (lastOp = "stopCamera" /\ lastOp' = "stopCamera")
            => /\ UNCHANGED <<LifecycleFields, disabled, liveStreams, activeTimers>>
               /\ threw' = FALSE ]_vars

\* C6 witness: stopCamera has just been called twice in a row, and a
\* detection loop had been run before (a sample's result has arrived).
C6_Witness ==
    /\ lastOp = "stopCamera" /\ stoppedTwice
    /\ stream = 0 /\ ~isDetecting /\ detectionInterval = 0
    /\ currentFaces > 0

\* C7: every acquired stream whose tracks are not stopped is the one
\* FaceRecognition.stream refers to.
C7_OneLiveStream == liveStreams \subseteq {stream}

\* C8: with the camera on, recognizeAttendance issues a request only if the
\* latest sample of the current capture session found a face; otherwise it
\* shows the no-face warning, issues nothing and leaves the button enabled
\* with its idle label.
C8_RecognizeNeedsSessionFace ==
    [][ (lastOp' = "recognizeAttendance" /\ stream # 0 /\ sessionFaces < 1)
            => /\ requests' = requests
               /\ lastToast' = "noFace"
               /\ disabled'["recognize-attendance"] = FALSE
               /\ label'["recognize-attendance"] = "idle" ]_vars

\* C9: registerFace called with an empty image field or an empty user id
\* shows a validation warning, issues no request, and leaves the register
\* button, the image field and the preview as they were.
C9_RegisterValidates ==
    [][ (lastOp' = "registerFace" /\ (imageField = "" \/ userId = ""))
            => /\ lastToast' \in {"needPhoto", "needUser"}
               /\ UNCHANGED <<requests, disabled, label, imageField, preview>> ]_vars

\* C9 witness: registerFace has just been refused for the empty user id, with
\* a photo in the image field.
C9_Witness ==
    /\ lastOp = "registerFace" /\ lastToast = "needUser"
    /\ imageField # "" /\ userId = ""

InFlight(kind) == \E r \in BagToSet(requests) : r.kind = kind

\* C11: the recognize button, and the register button, is disabled and shows
\* the spinner label exactly while a request of its kind is in flight; with
\* none in flight it is enabled and shows its idle label.
C11_ButtonShowsInFlight ==
    \A kind \in {"recognize", "register"} :
        IF InFlight(kind)
        THEN disabled[ButtonOf(kind)] /\ label[ButtonOf(kind)] = "busy"
        ELSE ~disabled[ButtonOf(kind)] /\ label[ButtonOf(kind)] = "idle"

\* C12: the result of a sample that arrives after the result of a younger
\* sample has been applied is discarded: it does not change currentFaces.
C12_StaleSampleDiscarded ==
    [][ \A i \in 1..Len(detectPending) :
            ( /\ lastOp' = "detectDone" /\ ~lastFailed'
              /\ detectPending[i].superseded
              /\ detectPending' = Supersede(detectPending, i) )
                => currentFaces' = currentFaces ]_vars

\* C13: the completion of a recognize request that finds the camera released
\* (stopCamera was called while the request was in flight and the camera has
\* not been started again) shows no toast, plays no sound and does not write
\* the result panel.
C13_ReleasedCompletionSilent ==
    [][ (lastOp' = "recognizeDone" /\ stream = 0)
            => /\ toastCount' = 0
               /\ lastSound' = "none"
               /\ resultPanel' = resultPanel ]_vars

\* C14: a detection result that arrives while isDetecting is false, that is
\* after stopDetection or stopCamera was called and before detection was
\* started again, does not overwrite currentFaces.
C14_LateResultDiscarded ==
    [][ (lastOp' = "detectDone" /\ ~isDetecting)
            => currentFaces' = currentFaces ]_vars

\* C15: no detection sample is taken while isDetecting is false, that is
\* between a stopDetection or stopCamera call and the next startDetection.
C15_NoSampleAfterStop == [][ lastOp' = "tick" => isDetecting ]_vars

\* C16: a failed detection sample is only logged: it leaves isDetecting,
\* detectionInterval, the active timers, the buttons and currentFaces as they
\* were and shows no toast and plays no sound.
C16_FailedSampleOnlyLogged ==
    [][ (lastOp' = "detectDone" /\ lastFailed')
            => /\ UNCHANGED <<isDetecting, detectionInterval, activeTimers,
                              currentFaces, disabled>>
               /\ toastCount' = 0
               /\ lastSound' = "none" ]_vars

\* C16 witness: a sample has just failed while the loop is scheduled and
\* currentFaces holds the result of an earlier successful sample.
C16_Witness ==
    /\ lastOp = "detectDone" /\ lastFailed
    /\ isDetecting /\ detectionInterval \in activeTimers
    /\ currentFaces > 0

\* C17: once loading the local models has failed, every sample a timer
\* submits goes to the backend detector.
C17_FailedLoadRoutesToBackend ==
    [][ (modelStatus = "failed" /\ lastOp' = "tick")
            => detectPending'[Len(detectPending')].detector = "backend" ]_vars

\* C17 witness: the model load has failed and a timer has just submitted a
\* sample, which went to the backend.
C17_Witness ==
    /\ modelStatus = "failed" /\ lastOp = "tick"
    /\ detectPending # <<>>
    /\ detectPending[Len(detectPending)].detector = "backend"

\* the calls and completions of startCamera, recognizeAttendance,
\* registerFace and deleteFaceData
InvocationOps == {"startCamera", "getUserMediaResolve", "getUserMediaReject",
                  "recognizeAttendance", "recognizeDone", "registerFace",
                  "registerDone", "deleteFaceData", "deleteDone"}

C20_RequestEventuallyEnds ==
    InFlight("recognize")
        ~> (lastOp = "recognizeDone" /\ ~disabled["recognize-attendance"])

\* C21: startCamera without a camera API, and a rejected getUserMedia promise,
\* show one toast and leave stream, the live streams, isDetecting and the
\* buttons as they were; a getUserMedia promise that resolves while the
\* controller is Idle leaves it CameraActive: stream set, start-camera
\* disabled, stop-camera enabled.
C21_StartCameraOutcome ==
    [][ /\ ( \/ lastOp' = "startCamera" /\ ~hasMediaDevices
             \/ lastOp' = "getUserMediaReject" )
            => /\ toastCount' = 1 /\ lastFailed'
               /\ UNCHANGED <<stream, liveStreams, isDetecting, disabled>>
        /\ (lastOp' = "getUserMediaResolve" /\ SessionState = "Idle")
            => /\ SessionState' = "CameraActive"
               /\ stream' # 0
               /\ disabled'["start-camera"] /\ ~disabled'["stop-camera"] ]_vars

\* C21 witness: a getUserMedia promise has just been rejected, the toast is
\* shown and the controller is Idle with the start button enabled.
C21_Witness ==
    /\ lastOp = "getUserMediaReject" /\ lastToast = "cameraDenied"
    /\ SessionState = "Idle"
    /\ ~disabled["start-camera"] /\ disabled["stop-camera"]

\* C22: stopDetection called while isDetecting is false changes nothing:
\* isDetecting, detectionInterval, stream, the canvas and the buttons are as
\* they were.
C22_StopWhenIdleIsNoOp ==
    [][ (lastOp' = "stopDetection" /\ ~isDetecting)
            => UNCHANGED <<isDetecting, detectionInterval, stream, overlay, disabled>>
      ]_vars

\* C24: isDetecting is true exactly when detectionInterval is not null, and
\* isDetecting implies that stream is not null.
C24_DetectingIffTimer ==
    /\ isDetecting <=> detectionInterval # 0
    /\ isDetecting => stream # 0

\* C24 witness: startDetection has just been called a second time while
\* detecting, so that two timers are active.
C24_Witness ==
    /\ lastOp = "startDetection" /\ isDetecting
    /\ Cardinality(activeTimers) = 2 /\ detectionInterval \in activeTimers

\* C25: a sample is routed by the state of model loading when its timer
\* fires: to the local detector if the load has succeeded, to the backend if
\* not (still loading, or failed); and a successful load is never undone, so
\* that no backend sample follows a local one.
C25_DetectorFollowsModel ==
    [][ /\ lastOp' = "tick"
            => detectPending'[Len(detectPending')].detector
                   = IF modelStatus = "loaded" THEN "local" ELSE "backend"
        /\ modelStatus = "loaded" => modelStatus' = "loaded"
        /\ faceDetectionModel <=> modelStatus = "loaded" ]_vars

\* C25 witness: a sample submitted before the load completed is still
\* awaiting the backend while a timer has just routed a sample to the local
\* detector.
C25_Witness ==
    /\ lastOp = "tick" /\ modelStatus = "loaded"
    /\ Len(detectPending) = 2
    /\ detectPending[1].detector = "backend"
    /\ detectPending[2].detector = "local"

\* C26: stopDetection and stopCamera leave currentFaces as it was, and
\* recognizeAttendance called with the camera on issues a request exactly
\* when currentFaces is not empty, whichever capture session filled it.
C26_FacesSurviveStop ==
    [][ /\ lastOp' \in {"stopDetection", "stopCamera"}
            => currentFaces' = currentFaces
        /\ (lastOp' = "recognizeAttendance" /\ stream # 0)
            => (currentFaces > 0 <=> requests' # requests) ]_vars

\* C26 witness: recognizeAttendance has just issued a request although no
\* result has been applied since the camera was last released: the faces it
\* found were detected in the previous capture session.
C26_Witness ==
    /\ lastOp = "recognizeAttendance" /\ ~lastFailed
    /\ InFlight("recognize")
    /\ sessionFaces = -1 /\ currentFaces > 0

\* the delete requests in flight
DeletesInFlight == CopiesIn(Request("delete", "none"), requests)

\* C27: a click on the delete button of a roster row runs deleteFaceData for
\* that row: it does not fail, and it issues one DELETE request when the
\* dialog is confirmed and none when it is declined.
C27_ClickRunsDelete ==
    [][ lastOp' = "clickDelete"
            => /\ ~threw'
               /\ DeletesInFlight' \in {DeletesInFlight, DeletesInFlight + 1} ]_vars

\* the menu items of class c are visible
Visible(c) == display[c] = ""

\* C23: after updateMenuByRole has run, alone or at the end of a user load,
\* with a user loaded, admin-only items are visible exactly for role admin,
\* admin-hr-only items exactly for admin and hr, admin-manager-only items
\* exactly for admin and manager; with no user loaded the display of every
\* item is as it was.
C23_MenuFollowsRole ==
    [][ menuOp' \in {"updateMenuByRole", "loadCurrentUserDone"}
            => IF currentUser' = "null"
               THEN display' = display
               ELSE /\ Visible("admin-only")' <=> currentUser' = "admin"
                    /\ Visible("admin-hr-only")' <=> currentUser' \in {"admin", "hr"}
                    /\ Visible("admin-manager-only")'
                           <=> currentUser' \in {"admin", "manager"} ]_vars

\* updateMenuByRole has run for an hr user: only the admin-hr-only items show
C23_Witness ==
    /\ menuOp = "updateMenuByRole"
    /\ currentUser = "hr"
    /\ ~Visible("admin-only") /\ Visible("admin-hr-only")
    /\ ~Visible("admin-manager-only")

\* C28: once every chart-data response has arrived, the charts show the data
\* of the request issued last (if that request succeeded), in whatever order
\* the responses arrived; and the refresh button is disabled whenever a
\* chart-data request is in flight.
C28_LatestWinsAndButtonBusy ==
    /\ (chartPending = <<>> /\ latestOutcome = "ok") => shownIsLatest
    /\ chartPending # <<>> => refreshDisabled

\* C29: the debounced func never runs inside a wrapper call; it runs only
\* when Wait or more has passed since the last wrapper call, once for the
\* burst of calls made since it last ran, with the arguments of the last of
\* them; and after a call it does run.
C29_DebounceRunsOnceAfterBurst ==
    /\ [][ /\ utilOp' = "debounceCall" => ~funcRan'
           /\ utilOp' = "debounceFire"
                  => /\ funcRan'
                     /\ dUnserved /\ ~dUnserved'
                     /\ now' - dLastCall >= Wait
                     /\ ranArgs' = dLastArgs ]_vars
    /\ (dUnserved ~> (utilOp = "debounceFire" /\ ~dUnserved))

\* func has just run for a burst of two or more calls, with the arguments
\* "b" of the last of them
C29_Witness ==
    /\ utilOp = "debounceFire"
    /\ funcRan
    /\ dBurst >= 2
    /\ ranArgs = "b"
    /\ dLastArgs = "b"

\* C30: the throttled func runs inside the first wrapper call, and in a later
\* call exactly when Wait or more has passed since it last ran, so that two
\* runs are Wait or more apart; a call within the window is dropped, and
\* func runs in no step but a wrapper call.
C30_ThrottleSpacing ==
    [][ /\ utilOp' = "throttleCall"
              => /\ funcRan' <=> (tRanAt = 0 \/ now' - tRanAt >= Wait)
                 /\ funcRan' => tRanAt' = now'
                 /\ ~funcRan' => UNCHANGED <<tRanAt, tLastTime>>
        /\ tRanAt' # tRanAt => (utilOp' = "throttleCall" /\ funcRan') ]_vars

\* a call made within the window of an earlier run has just been dropped
C30_Witness ==
    /\ utilOp = "throttleCall"
    /\ ~funcRan
    /\ tRanAt # 0
    /\ now - tRanAt = Wait - 1

====
